---- MODULE Spec2Model ----
(***************************************************************************)
(* A model of httpfromtcp: the request-line decoder (ParseRequestLine),    *)
(* the request state machine (Request.parse), the stream driver            *)
(* (RequestFromReader) of internal/request/request.go, and the header      *)
(* block decoder (Headers.Parse) of internal/headers/headers.go.           *)
(*                                                                         *)
(* A byte is a one-character string; a Go string or []byte is a sequence   *)
(* of bytes.  The zero byte of a fresh buffer is written NUL.              *)
(***************************************************************************)
EXTENDS Integers, Sequences, FiniteSets, TLC

\* ------------------------------------------------------------------ bytes

NUL == "NUL"
Nil == "nil"

\* len(buf) of the working buffer, make([]byte, 1024)
BufSize == 1024

\* How many times the caller invokes RequestFromReader on the same bytes.
MaxCalls == 2

SEPARATOR == <<"\r", "\n">>
rn == <<"\r", "\n">>

ERROR_MALFORMED_REQUEST_LINE == "ERRIR: Malformed Request Line"
ERROR_UNSUPPORTED_HTTP_VERSION == "ERROR: Unsupported HTTP Version"
ERROR_REQUEST_IN_ERROR_STATE == "Request in error state."
ErrMalformedFieldLine == "malformed field line"
ErrMalformedFieldName == "malformed field name"

\* What the io.Reader may report besides a byte count.
EOF == "EOF"
ErrIO == "read failed"

StateInit == "init"
StateDone == "done"
StateError == "error"

Min(a, b) == IF a <= b THEN a ELSE b

\* s[lo:hi] of Go (0-based, hi exclusive), for 0 <= lo <= hi <= len(s)
Slice(s, lo, hi) == SubSeq(s, lo + 1, hi)

\* bytes.LastIndex(b, sep) in the place of bytes.Index
IndexOfLast(b, sep) ==
    LET S == {i \in 0..(Len(b) - Len(sep)) :
                 \A j \in 1..Len(sep) : b[i + j] = sep[j]}
    IN IF S = {} THEN -1 ELSE CHOOSE i \in S : \A k \in S : i >= k

\* bytes.Index(b, sep): the 0-based offset of the first sep in b, or -1
Index(b, sep) ==
    LET S == {i \in 0..(Len(b) - Len(sep)) :
                 \A j \in 1..Len(sep) : b[i + j] = sep[j]}
    IN IF S = {} THEN -1 ELSE CHOOSE i \in S : \A k \in S : i <= k

\* bytes.Split(s, sep) for a one-byte separator: every field, empty ones kept
Split(s, sep) ==
    LET P == {i \in 1..Len(s) : s[i] = sep}
        k == Cardinality(P)
        Nth(j) == CHOOSE i \in P : Cardinality({q \in P : q < i}) = j - 1
        Cut(j) == IF j = 0 THEN 0 ELSE IF j = k + 1 THEN Len(s) + 1 ELSE Nth(j)
    IN [j \in 1..(k + 1) |-> SubSeq(s, Cut(j - 1) + 1, Cut(j) - 1)]

\* bytes.SplitN(s, sep, 2) for a one-byte separator: cut at the first sep only
SplitN2(s, sep) ==
    LET i == Index(s, <<sep>>)
    IN IF i = -1 THEN <<s>>
       ELSE <<Slice(s, 0, i), Slice(s, i + 1, Len(s))>>

\* The white space bytes.TrimSpace removes, within the model's alphabet.
WhiteSpace == {" ", "\t", "\n", "\f", "\r"}

\* bytes.TrimSpace(s)
TrimSpace(s) ==
    LET K == {i \in 1..Len(s) : s[i] \notin WhiteSpace}
    IN IF K = {} THEN <<>>
       ELSE SubSeq(s, CHOOSE i \in K : \A k \in K : i <= k,
                      CHOOSE i \in K : \A k \in K : i >= k)

\* bytes.HasSuffix(s, suffix)
HasSuffix(s, suffix) ==
    /\ Len(s) >= Len(suffix)
    /\ SubSeq(s, Len(s) - Len(suffix) + 1, Len(s)) = suffix

\* ------------------------------------------------------- request line

HTTP == <<"H", "T", "T", "P">>
V11 == <<"1", ".", "1">>
HTTP11 == <<"H", "T", "T", "P", "/", "1", ".", "1">>

\* The zero value of the RequestLine struct.
ZeroRequestLine == [HttpVersion |-> <<>>, RequestTarget |-> <<>>, Method |-> <<>>]

\* (*RequestLine).ValidHTTP
ValidHTTP(rl) == rl.HttpVersion = HTTP11

\* The error ParseRequestLine returns for a third field that is not HTTP/1.1.
VersionError == ERROR_MALFORMED_REQUEST_LINE

\* The version text ParseRequestLine stores: httpParts[1].
StoredVersion(httpParts) == httpParts[2]

\* A decoder that counts one byte more than the line and its delimiter.
LineEndOffByOne(idx) == idx + Len(SEPARATOR) + 1

\* read := idx + len(SEPARATOR): the bytes of the line and its delimiter
LineEnd(idx) == idx + Len(SEPARATOR)

\* ParseRequestLine(b): rlNil is "the *RequestLine is nil"
ParseRequestLine(b) ==
    LET idx == Index(b, SEPARATOR)
        startLine == Slice(b, 0, idx)
        read == LineEnd(idx)
        parts == Split(startLine, " ")
        httpParts == Split(parts[3], "/")
        none(err) == [rl |-> ZeroRequestLine, rlNil |-> TRUE, n |-> 0, err |-> err]
    IN IF idx = -1 THEN none(Nil)
       ELSE IF Len(parts) # 3 THEN none(ERROR_MALFORMED_REQUEST_LINE)
       ELSE IF \/ Len(httpParts) # 2
               \/ httpParts[1] # HTTP
               \/ httpParts[2] # V11
            THEN none(VersionError)
       ELSE [rl |-> [Method |-> parts[1],
                     RequestTarget |-> parts[2],
                     HttpVersion |-> StoredVersion(httpParts)],
             rlNil |-> FALSE, n |-> read, err |-> Nil]

\* newRequest()
newRequest == [RequestLine |-> ZeroRequestLine, state |-> StateInit]

\* The state a successful request-line decode moves the Request to.
AfterRequestLine == StateDone

\* case StateInit of (*Request).parse, entered with read bytes consumed
parseInit(r, data, read) ==
    LET p == ParseRequestLine(Slice(data, read, Len(data)))
    IN IF p.err # Nil
       THEN [r |-> [r EXCEPT !.state = StateError], n |-> 0, err |-> p.err]
       ELSE IF p.n = 0
       THEN [r |-> r, n |-> read, err |-> Nil]
       ELSE [r |-> [RequestLine |-> p.rl, state |-> AfterRequestLine],
             n |-> read + p.n, err |-> Nil]

\* A machine without the StateDone case: it decodes a request line again.
parseDoneDecodesAgain(r, data, read) == parseInit(r, data, read)

\* A machine that starts over when fed after it is done.
parseDoneStartsOver(r, data, read) ==
    [r |-> [r EXCEPT !.state = StateInit], n |-> read, err |-> Nil]

\* case StateDone of (*Request).parse: break outer
parseDone(r, data, read) == [r |-> r, n |-> read, err |-> Nil]

\* A machine that tries the request line again after a failure.
parseErrorTriesAgain(r, data) == parseInit(r, data, 0)

\* case StateError of (*Request).parse
parseError(r, data) == [r |-> r, n |-> 0, err |-> ERROR_REQUEST_IN_ERROR_STATE]

\* (*Request).parse(data): the Request after the call, the count and the error.
\* The for loop runs its body once: every path of the switch leaves the loop.
parse(r, data) ==
    LET read == 0
    IN CASE r.state = StateError -> parseError(r, data)
         [] r.state = StateInit -> parseInit(r, data, read)
         [] r.state = StateDone -> parseDone(r, data, read)
         [] OTHER -> [r |-> r, n |-> read, err |-> Nil]

\* (*Request).done
done(r) == r.state = StateDone \/ r.state = StateError

\* ------------------------------------------------------------ headers

\* parseHeader(fieldLine): name, value, error
parseHeader(fieldLine) ==
    LET parts == SplitN2(fieldLine, ":")
        name == parts[1]
        value == TrimSpace(parts[2])
        fail(err) == [name |-> <<>>, value |-> <<>>, err |-> err]
    IN IF Len(parts) # 2 THEN fail(ErrMalformedFieldLine)
       ELSE IF HasSuffix(name, <<" ">>) THEN fail(ErrMalformedFieldName)
       ELSE [name |-> name, value |-> value, err |-> Nil]

\* h[name] = value on a Go map: a repeated name overwrites
MapPut(m, name, value) ==
    [k \in (DOMAIN m) \cup {name} |-> IF k = name THEN value ELSE m[k]]

\* The offset at which an iteration of Headers.Parse looks for the next CRLF:
\* bytes.Index(data[read:], rn), on a data that the loop has already advanced.
ScanFrom(read) == read

\* The loop of Headers.Parse, entered with the map m, the (advanced) data and
\* read.  panic is "the runtime panicked on a slice out of range".
RECURSIVE ParseLoop(_, _, _)
ParseLoop(m, data, read) ==
    LET from == ScanFrom(read)
        idx == Index(Slice(data, from, Len(data)), rn)
        f == parseHeader(Slice(data, 0, idx))
        ret(n, dn, err, pn) ==
            [h |-> m, n |-> n, done |-> dn, err |-> err, panic |-> pn]
    IN IF from > Len(data) THEN ret(0, FALSE, Nil, TRUE)
       ELSE IF idx = -1 THEN ret(read, FALSE, Nil, FALSE)
       ELSE IF idx = 0 THEN ret(read + Len(rn), TRUE, Nil, FALSE)
       ELSE IF f.err # Nil THEN ret(0, FALSE, f.err, FALSE)
       ELSE ParseLoop(MapPut(m, f.name, f.value),
                      Slice(data, idx + Len(rn), Len(data)),
                      read + idx + Len(rn))

\* (Headers).Parse(data)
HeadersParse(m, data) == ParseLoop(m, data, 0)

\* ------------------------------------------------------------ the inputs

Pad(c, k) == [i \in 1..k |-> c]

RL11 == <<"G", "E", "T", " ", "/", " ", "H", "T", "T", "P", "/", "1", ".", "1">>
RL10 == <<"G", "E", "T", " ", "/", " ", "H", "T", "T", "P", "/", "1", ".", "0">>
RL2 == <<"G", "E", "T", " ", "/">>

\* GET / HTTP/1.1\r\nH: a\r\n\r\n
MsgValid == RL11 \o rn \o <<"H", ":", " ", "a">> \o rn \o rn
\* GET / HTTP/1.1\r\n\r\n
MsgNoHeaders == RL11 \o rn \o rn
\* GET / HTTP/1.1\r\n and then the source ends
MsgTruncated == RL11 \o rn
\* GET / HTTP/1.0\r\n\r\n
MsgOldVersion == RL10 \o rn \o rn
\* GET /\r\n\r\n
MsgTwoTokens == RL2 \o rn \o rn
\* GET / and then the source ends
MsgNoCRLF == RL2
\* a valid message of more than BufSize/2 bytes: one long header value
MsgLong == RL11 \o rn \o <<"X", ":", " ">> \o Pad("a", BufSize \div 2) \o rn \o rn
\* a request line longer than the working buffer
MsgOversized ==
    RL2 \o Pad("a", BufSize) \o <<" ">> \o HTTP11 \o rn \o rn

\* The byte sequences a source may hold, by name.
Messages ==
    [Valid |-> MsgValid, NoHeaders |-> MsgNoHeaders, Truncated |-> MsgTruncated,
     OldVersion |-> MsgOldVersion, TwoTokens |-> MsgTwoTokens,
     NoCRLF |-> MsgNoCRLF, Long |-> MsgLong, Oversized |-> MsgOversized]

\* numBytesPerRead of the source: one byte, two bytes, or all that fits
ChunkSizes == {1, 2, BufSize}

\* ------------------------------------------------------------ the driver

VARIABLES
    msg,        \* the name of the bytes the source holds (see Src)
    chunk,      \* the most bytes the source delivers per Read
    flaky,      \* the source may report 0 bytes, or fail
    pos,        \* bytes of msg the source has delivered
    pc,         \* "idle", "reading" (inside reader.Read), "returned", "panicked"
    buf,        \* the working buffer up to the highest byte written (see Full)
    bufIdx,     \* its fill index
    request,    \* the *Request of newRequest()
    result,     \* what RequestFromReader returned
    last,       \* the last iteration: what Read gave, what parse was fed and gave
    consumed,   \* bytes parse has consumed in this invocation
    calls,      \* invocations started
    prev,       \* the outcome of the previous invocation
    h,          \* a Headers map
    hpc,        \* "ready", or "panicked" inside Headers.Parse
    hlast       \* the last Headers.Parse call: its data and what it returned

dvars == <<msg, chunk, flaky, pos, pc, buf, bufIdx, request, result, last,
           consumed, calls, prev>>
hvars == <<h, hpc, hlast>>
vars == <<msg, chunk, flaky, pos, pc, buf, bufIdx, request, result, last,
          consumed, calls, prev, h, hpc, hlast>>

\* make([]byte, 1024)
ZeroBuf == Pad(NUL, BufSize)

\* The bytes of the source.
Src == Messages[msg]

\* The BufSize bytes of the working buffer: what was written, then the zero
\* bytes make left.
Full(b) == b \o SubSeq(ZeroBuf, 1, BufSize - Len(b))

NoResult == [hasReq |-> FALSE, req |-> newRequest, err |-> Nil]
NoLast == [n |-> 0, rerr |-> Nil, fill |-> 0, hi |-> 0, fed |-> FALSE,
           readN |-> 0, perr |-> Nil]
NoPrev == [pc |-> "idle", chunk |-> 0, flaky |-> FALSE, result |-> NoResult]

NoHLast == [data |-> <<>>, n |-> 0, done |-> FALSE, err |-> Nil]
HInit == h = <<>> /\ hpc = "ready" /\ hlast = NoHLast

DInit ==
    /\ chunk = 1 /\ flaky = FALSE /\ pos = 0 /\ pc = "idle"
    /\ buf = <<>> /\ bufIdx = 0
    /\ request = newRequest /\ result = NoResult /\ last = NoLast
    /\ consumed = 0 /\ calls = 0 /\ prev = NoPrev

Init == msg \in DOMAIN Messages /\ DInit /\ HInit

\* RequestFromReader up to its first reader.Read: a fresh Request and buffer
Call ==
    /\ pc = "idle" \/ (pc = "returned" /\ calls < MaxCalls)
    /\ \E c \in ChunkSizes, f \in BOOLEAN : chunk' = c /\ flaky' = f
    /\ prev' = IF pc = "returned"
               THEN [pc |-> pc, chunk |-> chunk, flaky |-> flaky, result |-> result]
               ELSE prev
    /\ calls' = calls + 1
    /\ pos' = 0 /\ pc' = "reading"
    /\ buf' = <<>> /\ bufIdx' = 0
    /\ request' = newRequest /\ result' = NoResult /\ last' = NoLast
    /\ consumed' = 0
    /\ UNCHANGED <<msg, h, hpc, hlast>>

\* The upper bound of the slice handed to parse: buf[:bufIdx+n], taken after
\* bufIdx += n (idx is the advanced index).
WindowHi(idx, n) == idx + n

\* A driver that forgets to move the unconsumed bytes to the front.
CompactNothing(b, readN, idx) == b

\* copy(buf, buf[readN:idx])
Compact(b, readN, idx) ==
    SubSeq(b, readN + 1, idx) \o SubSeq(b, idx - readN + 1, Len(b))

\* A driver that does not take the end of the source for a failed read.
ReadFailedButEOF(n, err) == err # Nil /\ err # EOF

\* A driver that takes a read of no bytes for the end of the input.
ReadFailedOrEmpty(n, err) == err # Nil \/ n = 0

\* if err != nil, on the (n, err) reader.Read returned
ReadFailed(n, err) == err # Nil

\* One iteration of the loop, from the return of reader.Read with (n, err) and
\* the n bytes it wrote at buf[bufIdx:], to the next reader.Read or the return.
Iterate(n, err) ==
    LET buf1 == SubSeq(buf, 1, bufIdx) \o SubSeq(Src, pos + 1, pos + n)
                    \o SubSeq(buf, bufIdx + n + 1, Len(buf))
        idx == bufIdx + n
        hi == WindowHi(idx, n)
        p == parse(request, Slice(Full(buf1), 0, hi))
        it == [n |-> n, rerr |-> err, fill |-> idx, hi |-> hi, fed |-> FALSE,
               readN |-> 0, perr |-> Nil]
    IN /\ pos' = pos + n
       /\ UNCHANGED <<msg, chunk, flaky, calls, prev, h, hpc, hlast>>
       /\ IF ReadFailed(n, err)
          THEN \* return nil, err
               /\ pc' = "returned"
               /\ result' = [hasReq |-> FALSE, req |-> newRequest, err |-> err]
               /\ last' = [it EXCEPT !.fill = bufIdx, !.hi = 0]
               /\ UNCHANGED <<buf, bufIdx, request, consumed>>
          ELSE IF hi > BufSize
          THEN \* buf[:bufIdx+n] is out of range: the runtime panics
               /\ pc' = "panicked"
               /\ buf' = buf1 /\ bufIdx' = idx
               /\ last' = it
               /\ UNCHANGED <<request, result, consumed>>
          ELSE IF p.err # Nil
          THEN \* return nil, err
               /\ pc' = "returned"
               /\ buf' = buf1 /\ bufIdx' = idx
               /\ request' = p.r
               /\ result' = [hasReq |-> FALSE, req |-> newRequest, err |-> p.err]
               /\ last' = [it EXCEPT !.fed = TRUE, !.perr = p.err]
               /\ UNCHANGED consumed
          ELSE IF p.n > idx
          THEN \* buf[readN:bufIdx] is out of range: the runtime panics
               /\ pc' = "panicked"
               /\ buf' = buf1 /\ bufIdx' = idx
               /\ request' = p.r
               /\ last' = [it EXCEPT !.fed = TRUE, !.readN = p.n]
               /\ UNCHANGED <<result, consumed>>
          ELSE /\ buf' = Compact(buf1, p.n, idx)
               /\ bufIdx' = idx - p.n
               /\ request' = p.r
               /\ consumed' = consumed + p.n
               /\ last' = [it EXCEPT !.fed = TRUE, !.readN = p.n]
               /\ IF done(p.r)
                  THEN \* the loop ends: return request, nil
                       /\ pc' = "returned"
                       /\ result' = [hasReq |-> TRUE, req |-> p.r, err |-> Nil]
                  ELSE pc' = "reading" /\ UNCHANGED result

\* reader.Read(buf[bufIdx:]) delivers the next bytes of the source
ReadData ==
    /\ pc = "reading"
    /\ pos < Len(Src)
    /\ Iterate(Min(chunk, Min(Len(Src) - pos, BufSize - bufIdx)), Nil)

\* reader.Read at the end of the source
ReadEOF ==
    /\ pc = "reading"
    /\ pos = Len(Src)
    /\ Iterate(0, EOF)

\* reader.Read reports no bytes and no error
ReadZero ==
    /\ pc = "reading"
    /\ flaky
    /\ Iterate(0, Nil)

\* reader.Read fails
ReadFail ==
    /\ pc = "reading"
    /\ flaky
    /\ Iterate(0, ErrIO)

Next == Call \/ ReadData \/ ReadEOF \/ ReadZero \/ ReadFail

Spec == Init /\ [][Next]_vars

\* ------------------------------------------------- the header decoder

\* Header field lines, and the buffers built of them
FieldLines ==
    {<<"A", ":", " ", "b">>,
     <<"C", "c", ":", "d">>,
     <<"E", ":", " ", "f", ":", "g", " ">>,
     <<"H", " ", ":", " ", "x">>,
     <<"N", "o">>,
     <<"T", "\t", ":", "v">>,
     <<" ", "L", ":", "m">>}

HeaderInputs ==
    {rn}
    \cup FieldLines
    \cup {l \o rn : l \in FieldLines}
    \cup {l \o rn \o rn : l \in FieldLines}
    \cup {l1 \o rn \o l2 \o rn \o rn : l1 \in FieldLines, l2 \in FieldLines}
    \cup {l1 \o rn \o l2 \o rn \o l1 \o rn \o rn : l1 \in FieldLines, l2 \in FieldLines}

\* h.Parse(data) on the map built so far
HParse ==
    /\ hpc = "ready"
    /\ \E data \in HeaderInputs :
          LET p == HeadersParse(h, data)
          IN /\ h' = p.h
             /\ hpc' = IF p.panic THEN "panicked" ELSE "ready"
             /\ hlast' = [data |-> data, n |-> p.n, done |-> p.done, err |-> p.err]
    /\ UNCHANGED dvars

\* NewHeaders(), and no request under way
HeadersInit == msg = "Valid" /\ DInit /\ HInit

SpecHeaders == HeadersInit /\ [][HParse]_vars

\* ------------------------------------------- the machine fed directly

\* Buffers handed to (*Request).parse: with and without a CRLF, of two, three
\* and four fields, with other versions, with bytes after the request line
FeedInputs ==
    {<<>>, rn, RL2, RL11, RL2 \o rn, RL11 \o rn, RL10 \o rn,
     MsgValid, MsgOldVersion, MsgTwoTokens,
     <<"P", "O", "S", "T", " ", "/", "x", " ">> \o HTTP11 \o rn \o RL2,
     <<" ", "/", " ">> \o HTTP11 \o rn,
     <<"G", "E", "T", " ", " ", "/", " ">> \o HTTP11 \o rn,
     <<"G", "E", "T", " ", "/", " ">> \o HTTP11 \o <<"/", "2">> \o rn,
     <<"G", "E", "T", " ", "/", " ", "F", "T", "P", "/", "1", ".", "1">> \o rn,
     RL11 \o <<"\r">>, RL11 \o <<"\n">> \o RL11 \o rn,
     <<"P", "U", "T", " ", "/", "y", "z", " ">> \o HTTP11 \o rn \o rn,
     <<"G", " ", "*", " ">> \o HTTP11 \o rn \o <<"H", ":", "a">> \o rn}

\* r.parse(data) on the Request as the calls before left it; buf holds data
Feed ==
    /\ \E data \in FeedInputs :
          LET p == parse(request, data)
          IN /\ buf' = data
             /\ request' = p.r
             /\ consumed' = consumed + p.n
             /\ last' = [n |-> Len(data), rerr |-> Nil, fill |-> Len(data),
                         hi |-> Len(data), fed |-> TRUE, readN |-> p.n,
                         perr |-> p.err]
    /\ UNCHANGED <<msg, chunk, flaky, pos, pc, bufIdx, result, calls, prev,
                   h, hpc, hlast>>

\* newRequest(), and no driver around it
FeedInit == msg = "Valid" /\ DInit /\ HInit

SpecFeed == FeedInit /\ [][Feed]_vars

\* ------------------------------------------------------------ properties

\* The complete lines of b, in order, without their CRLF.
RECURSIVE LinesOf(_)
LinesOf(b) ==
    LET i == Index(b, rn)
    IN IF i = -1 THEN <<>>
       ELSE <<Slice(b, 0, i)>> \o LinesOf(Slice(b, i + Len(rn), Len(b)))

\* A header field line of the wire format: a colon, and no space before it.
IsFieldLine(l) ==
    LET i == Index(l, <<":">>)
    IN i >= 1 /\ l[i] \notin {" ", "\t"}

\* A request line of the wire format: METHOD SP TARGET SP HTTP/1.1
IsRequestLine(l) ==
    LET parts == Split(l, " ")
    IN Len(parts) = 3 /\ parts[1] # <<>> /\ parts[2] # <<>> /\ parts[3] = HTTP11

\* The offset just past the header block terminator of m, or -1.
HeaderEnd(m) ==
    LET i == Index(m, rn \o rn)
    IN IF i = -1 THEN -1 ELSE i + 2 * Len(rn)

\* m is a request line, header field lines and the empty terminator line.
IsValidMessage(m) ==
    LET ls == LinesOf(m)
    IN /\ HeaderEnd(m) = Len(m)
       /\ Len(ls) >= 2
       /\ IsRequestLine(ls[1])
       /\ ls[Len(ls)] = <<>>
       /\ \A j \in 2..(Len(ls) - 1) : IsFieldLine(ls[j])

\* The invocation has ended, by a return or by a panic.
Ended == pc \in {"returned", "panicked"}

\* C1: for a valid message, the invocation whose source delivers one byte per
\* Read and the invocation whose source delivers all bytes in one Read end the
\* same way: both return the same Request and no error.
ChunkIndependence ==
    ( /\ Ended /\ prev.pc = "returned"
      /\ IsValidMessage(Src) /\ Len(Src) <= BufSize
      /\ ~flaky /\ ~prev.flaky
      /\ {chunk, prev.chunk} = {1, BufSize} )
    => ( /\ pc = "returned"
         /\ result = prev.result
         /\ result.hasReq /\ result.err = Nil )

\* C2: the Request is in its final (done) state only when the header block
\* terminator has been consumed.
CompleteOnlyAfterTerminator ==
    request.state = StateDone
    => (HeaderEnd(Src) # -1 /\ consumed >= HeaderEnd(Src))

\* C3: for a source that ends before a header block terminator, an invocation
\* that returns returns a failure and no Request.
TruncatedNeverARequest ==
    (pc = "returned" /\ HeaderEnd(Src) = -1)
    => (~result.hasReq /\ result.err # Nil)

\* The message has no CRLF within the first BufSize bytes.
Oversized(m) == Len(m) > BufSize /\ Index(Slice(m, 0, BufSize), rn) = -1

\* C4: on an oversized request line the invocation ends by returning an error
\* of its own kind; it does not end in a run-time panic on a slice out of range.
OversizedIsReported ==
    (Ended /\ ~flaky /\ Oversized(Src))
    => ( /\ pc = "returned"
         /\ ~result.hasReq
         /\ result.err \notin {Nil, EOF, ErrIO, ERROR_MALFORMED_REQUEST_LINE,
                               ERROR_UNSUPPORTED_HTTP_VERSION,
                               ERROR_REQUEST_IN_ERROR_STATE} )

\* An iteration got as far as slicing the window for parse.
Sliced == last.fed \/ (pc = "panicked" /\ last.rerr = Nil)

\* C5: the window handed to parse ends at the fill index (unconsumed bytes plus
\* the bytes just read), and never beyond the buffer's capacity.
WindowIsFilledRegion ==
    Sliced => (last.hi = last.fill /\ last.hi <= BufSize)

\* The window parse was fed in the last iteration, when nothing was compacted.
LastWindow == Slice(Full(buf), 0, last.hi)

\* The first line of w has three fields and the third is not HTTP/1.1.
ThreeFieldsOtherVersion(w) ==
    LET idx == Index(w, rn)
        parts == Split(Slice(w, 0, idx), " ")
    IN idx # -1 /\ Len(parts) = 3 /\ parts[3] # HTTP11

\* C6: a request line of three fields whose third is not HTTP/1.1 fails with
\* the unsupported-version error, not with the malformed-request-line error.
UnsupportedVersionIsDistinct ==
    (last.fed /\ last.readN = 0 /\ ThreeFieldsOtherVersion(LastWindow))
    => ( /\ last.perr = ERROR_UNSUPPORTED_HTTP_VERSION
         /\ last.perr # ERROR_MALFORMED_REQUEST_LINE )

\* C7: a RequestLine stored in a Request has the version text HTTP/1.1.
StoredVersionIsHTTP11 ==
    request.state = StateDone => ValidHTTP(request.RequestLine)

\* The buffer is k >= 2 well-formed field lines and the terminator, no more.
IsBlockOfSeveral(b) ==
    LET ls == LinesOf(b)
    IN /\ Len(ls) >= 3
       /\ HeaderEnd(b) = Len(b)
       /\ ls[Len(ls)] = <<>>
       /\ \A j \in 1..(Len(ls) - 1) : IsFieldLine(ls[j])

\* The name and the value of a well-formed field line.
NameOf(l) == Slice(l, 0, Index(l, <<":">>))
ValueOf(l) == TrimSpace(Slice(l, Index(l, <<":">>) + 1, Len(l)))

\* C8: a Headers.Parse call on k >= 2 field lines and the terminator stores
\* every pair, reports the block complete and consumes the whole buffer,
\* without a panic.
SeveralLinesInOneCall ==
    IsBlockOfSeveral(hlast.data)
    => ( /\ hpc = "ready"
         /\ hlast.err = Nil /\ hlast.done
         /\ hlast.n = Len(hlast.data)
         /\ \A j \in 1..(Len(LinesOf(hlast.data)) - 1) :
               LET l == LinesOf(hlast.data)[j]
               IN NameOf(l) \in DOMAIN h
                  /\ (\A i \in (j + 1)..(Len(LinesOf(hlast.data)) - 1) :
                         NameOf(LinesOf(hlast.data)[i]) # NameOf(l))
                     => h[NameOf(l)] = ValueOf(l) )

\* C9: parse returns a count between 0 and the bytes supplied; the count never
\* exceeds the bytes read and not yet consumed, so the fill index is never
\* negative; and the total consumed by one Request never decreases.
ConsumedWithinSupplied ==
    /\ [](last.fed => ( /\ 0 <= last.readN /\ last.readN <= last.hi
                        /\ last.readN <= last.fill ))
    /\ [](bufIdx >= 0 /\ consumed <= pos)
    /\ [][calls' = calls => consumed' >= consumed]_vars

\* parse consumed a request line and left bytes in the buffer
ConsumedWithLeftover ==
    last.fed /\ last.readN > 0 /\ bufIdx > 0 /\ consumed = last.readN

\* C10: a return gives a Request and no error, or an error and no Request; a
\* failed read is returned at once; a Request in the error state is never
\* returned.
ExactlyOneOutcome ==
    /\ pc = "returned" =>
          ( /\ result.hasReq <=> result.err = Nil
            /\ result.hasReq => (result.req = request
                                 /\ result.req.state # StateError) )
    /\ last.rerr # Nil =>
          (pc = "returned" /\ ~result.hasReq /\ result.err = last.rerr)
    /\ request.state = StateError => (pc = "returned" /\ ~result.hasReq)

\* a read failed after bytes had been buffered, and the failure was returned
FailedReadReturned ==
    pc = "returned" /\ last.rerr = ErrIO /\ bufIdx > 0 /\ result.err = ErrIO

\* C11: a feed to a machine that is already done or already failed reports 0
\* bytes consumed and leaves the stored request line and the phase as they
\* were, whatever bytes it is given.
TerminalPhasesInert ==
    [][done(request) => (last'.readN = 0 /\ request' = request)]_vars

\* A done machine was fed a buffer that holds a whole request line.
DoneMachineFedALine ==
    /\ request.state = StateDone /\ last.fed /\ last.readN = 0
    /\ Index(buf, SEPARATOR) > 0

\* The reasons the request line decoder gives for a failure
DecoderErrors == {ERROR_MALFORMED_REQUEST_LINE, ERROR_UNSUPPORTED_HTTP_VERSION}

\* C12: the feed that fails the machine reports a decoder error and 0 bytes;
\* every feed after it reports the already-failed error, which is none of the
\* decoder's errors, consumes 0 bytes and leaves the machine failed, whatever
\* the bytes: the request line is not decoded again.
FailureIsTerminal ==
    [][/\ (request.state # StateError /\ request'.state = StateError)
            => (last'.perr \in DecoderErrors /\ last'.readN = 0)
       /\ request.state = StateError
            => /\ last'.perr = ERROR_REQUEST_IN_ERROR_STATE
               /\ last'.perr \notin DecoderErrors
               /\ last'.readN = 0
               /\ request' = request]_vars

\* A failed machine was fed a well-formed request line and refused it.
FailedMachineFedAgain ==
    /\ request.state = StateError /\ last.fed
    /\ last.perr = ERROR_REQUEST_IN_ERROR_STATE
    /\ buf = RL11 \o rn

\* C13: a Read that reports zero bytes and no failure while the loop is
\* running makes RequestFromReader return nothing: the buffer, the fill index
\* and the machine stay as they were and the next Read is issued.
ZeroReadIsRetried ==
    [][(pc = "reading" /\ calls' = calls /\ last'.n = 0 /\ last'.rerr = Nil)
          => /\ pc' = "reading" /\ result' = result
             /\ buf' = buf /\ bufIdx' = bufIdx /\ pos' = pos
             /\ request' = request]_vars

\* The loop reads again after a Read of zero bytes, with bytes buffered.
ReadingAfterZeroRead ==
    /\ pc = "reading" /\ last.fed /\ last.n = 0 /\ last.rerr = Nil
    /\ bufIdx > 0 /\ result = NoResult

\* The whitespace a header name may not begin or end with
Blank == {" ", "\t"}

\* C14: after any sequence of Headers.Parse calls no key of the map begins or
\* ends with a space or a tab, and every value is stored trimmed.
\* (Stated of the maps that calls which returned have left.)
HeaderMapWhitespace ==
    hpc = "ready" =>
        \A k \in DOMAIN h :
            /\ k # <<>> => (k[1] \notin Blank /\ k[Len(k)] \notin Blank)
            /\ h[k] = TrimSpace(h[k])

\* The errors Headers.Parse reports for a malformed header field
HeaderErrors == {ErrMalformedFieldLine, ErrMalformedFieldName}

\* The first complete line of the buffer of the last Headers.Parse call
FirstLine == Slice(hlast.data, 0, Index(hlast.data, rn))

\* l has no colon, or a space or a tab right before its first colon.
MalformedField(l) ==
    LET c == Index(l, <<":">>)
    IN c = -1 \/ (c > 0 /\ l[c] \in Blank)

\* C16: a call whose buffer starts with a complete header line returns a
\* malformed-header error when the line has no colon or has whitespace right
\* before its first colon; otherwise the line is accepted and split at its
\* first colon only: the name before it maps to the trimmed rest.
\* (Stated of the calls that returned.)
MalformedFieldRejected ==
    (hpc = "ready" /\ Index(hlast.data, rn) > 0) =>
        IF MalformedField(FirstLine)
        THEN hlast.err \in HeaderErrors
        ELSE /\ NameOf(FirstLine) \in DOMAIN h
             /\ h[NameOf(FirstLine)] = ValueOf(FirstLine)

\* The offsets of b at which a CRLF starts
CRLFs(b) == {i \in 0..(Len(b) - 2) : b[i + 1] = "\r" /\ b[i + 2] = "\n"}

\* The offset of the first CRLF of a b that has one
FirstCRLF(b) == CHOOSE i \in CRLFs(b) : \A k \in CRLFs(b) : i <= k

\* The positions of the spaces of l
Spaces(l) == {k \in 1..Len(l) : l[k] = " "}

\* What the claim says of ParseRequestLine(b), given the Request rq a fresh
\* machine is left with and the count n and the error err its feed reported
DecoderResult(b, rq, n, err) ==
    IF CRLFs(b) = {}
    THEN rq = newRequest /\ n = 0 /\ err = Nil
    ELSE LET l == SubSeq(b, 1, FirstCRLF(b))
             S == Spaces(l)
             s1 == CHOOSE k \in S : \A j \in S : k <= j
             s2 == CHOOSE k \in S : \A j \in S : k >= j
         IN /\ Cardinality(S) # 2 =>
                  (err = ERROR_MALFORMED_REQUEST_LINE /\ n = 0)
            /\ (Cardinality(S) = 2 /\ SubSeq(l, s2 + 1, Len(l)) = HTTP11) =>
                  /\ err = Nil
                  /\ rq.RequestLine.Method = SubSeq(l, 1, s1 - 1)
                  /\ rq.RequestLine.RequestTarget = SubSeq(l, s1 + 1, s2 - 1)
                  /\ n = FirstCRLF(b) + 2

\* C15: ParseRequestLine, as a machine awaiting its request line applies it
\* to the buffer it is fed: nothing, 0 and no error when the buffer has no
\* CRLF; method, target and the offset past the first CRLF when the bytes
\* before it are three space-separated fields ending in HTTP/1.1; the
\* malformed-request-line error and 0 when the fields are not three.
DecoderResultAsSpecified ==
    [][request.state = StateInit
          => DecoderResult(buf', request', last'.readN, last'.perr)]_vars

\* A request line was decoded out of a buffer that goes on after it.
LineDecodedWithRest ==
    /\ request.state = StateDone /\ last.fed
    /\ last.readN > 0 /\ last.readN < Len(buf)
    /\ request.RequestLine.Method = <<"P", "O", "S", "T">>
    /\ request.RequestLine.RequestTarget = <<"/", "x">>

\* The phase b is the phase a or a later one: the machine awaiting its
\* request line may stay, complete or fail; a done or failed one stays.
Forward(a, b) == a = b \/ (a = StateInit /\ b \in {StateDone, StateError})

\* C17: over any sequence of feeds to one Request the phase only moves
\* forward, from awaiting the request line to complete or to failed; it never
\* goes back and never leaves complete or failed.
PhaseMonotonic ==
    [][Forward(request.state, request'.state)]_vars

\* A done machine was fed a malformed request line and is still done.
DoneMachineFedMalformed ==
    /\ request.state = StateDone /\ last.fed /\ consumed > 0
    /\ buf = RL2 \o rn

\* C18: when an iteration of RequestFromReader has run to its end, buf[0:fill]
\* holds the bytes read from the source and not yet consumed by the parser,
\* in their order, none lost and none twice, and fill is the total read minus
\* the total consumed.
CompactionKeepsUnconsumed ==
    pc \in {"reading", "returned"} =>
        /\ bufIdx = pos - consumed
        /\ Slice(Full(buf), 0, bufIdx) = Slice(Src, consumed, pos)

\* The bytes read after the request line were moved to the front.
RestMovedToFront ==
    /\ pc = "returned" /\ result.hasReq /\ consumed > 0 /\ bufIdx > 1
    /\ buf[1] = Src[consumed + 1] /\ buf[1] # Src[1]

\* C19: for a source that delivers its bytes and then reports the end of the
\* input on every Read, RequestFromReader returns, with a Request or with an
\* error. An invocation that has panicked takes no further step and so never
\* returns: for such a source every invocation that ends, ends returned.
DriverReturns ==
    (~ flaky /\ Ended) =>
        /\ pc = "returned"
        /\ result.hasReq \/ result.err # Nil

====
